---------------------------- MODULE Spec2Model ----------------------------
(***************************************************************************)
(* Model of finance.py, the Streamlit portfolio tracker.                   *)
(*                                                                         *)
(* The script is re-executed top to bottom on every user interaction.      *)
(* st.session_state and the URL query parameters survive between runs;     *)
(* script locals do not.  One run is broken into the script's sections     *)
(* (pc), so that a run that stops with an uncaught exception is visible.   *)
(*                                                                         *)
(* Text is a sequence of one-character strings, so that the labels the     *)
(* script formats and later parses are really formatted and parsed.        *)
(* Prices are integers (hundredths of a currency unit).                    *)
(***************************************************************************)
EXTENDS Integers, Sequences, FiniteSets, TLC

\* ------------------------------------------------------------------ bounds

\* Most holdings the model lets the user add, in the whole application and
\* in the store driven directly.
MaxAppHoldings == 1
MaxHoldings == 3
\* Longest holdings list drawn as input of a pure function.
MaxList == 3
\* Last day of the calendar window the historical lookups are drawn from.
MaxDay == 12

\* ------------------------------------------------------- program constants

\* number_input(min_value=0.01): one hundredth.
MinPrice == 1
\* number_input("Quantity", min_value=1)
MinQuantity == 1
\* get_ticker_recommendations keeps data['quotes'][:8]
SearchLimit == 8
\* the search fires from 3 characters on
MinQueryLen == 3
\* start = date - timedelta(days=7)
LookBackDays == 7
\* end_date = date + timedelta(days=1)
EndOffsetDays == 1

\* ----------------------------------------------------------- Python values

\* None where a number may stand (an Optional[float]); no price is negative.
None == -1
\* A numeric script local that no statement of this run has assigned.
Unbound == -2
\* None where text may stand.
NoneText == <<"None">>
\* A text local that no statement of this run has assigned.
UnboundText == <<"Unbound">>

\* ------------------------------------------------------------------ text

\* s[i:i+len(sep)] == sep
MatchAt(s, sep, i) ==
    /\ i + Len(sep) - 1 <= Len(s)
    /\ SubSeq(s, i, i + Len(sep) - 1) = sep

RECURSIVE SplitFrom(_, _, _, _)
SplitFrom(s, sep, i, cur) ==
    IF i > Len(s) THEN <<cur>>
    ELSE IF MatchAt(s, sep, i)
         THEN <<cur>> \o SplitFrom(s, sep, i + Len(sep), <<>>)
         ELSE SplitFrom(s, sep, i + 1, Append(cur, s[i]))

\* str.split(sep): the pieces between the non-overlapping occurrences of sep.
split(s, sep) == SplitFrom(s, sep, 1, <<>>)

RECURSIVE JoinFrom(_, _, _)
JoinFrom(parts, glue, i) ==
    IF i > Len(parts) THEN <<>>
    ELSE IF i = Len(parts) THEN parts[i]
    ELSE parts[i] \o glue \o JoinFrom(parts, glue, i + 1)

\* str.replace(old, new)
replace(s, old, new) == JoinFrom(split(s, old), new, 1)

\* sub in s
contains(s, sub) == Len(split(s, sub)) > 1

Digits == <<"0", "1", "2", "3", "4", "5", "6", "7", "8", "9">>

RECURSIVE IntToStr(_)
\* str(n) / f"{n}" of a non-negative int
IntToStr(n) ==
    IF n < 10 THEN <<Digits[n + 1]>>
    ELSE Append(IntToStr(n \div 10), Digits[(n % 10) + 1])

DigitValue(c) == CHOOSE d \in 0..9 : Digits[d + 1] = c

IsDigit(c) == \E d \in 0..9 : Digits[d + 1] = c

RECURSIVE StrToIntFrom(_, _, _)
StrToIntFrom(s, i, acc) ==
    IF i > Len(s) THEN acc
    ELSE StrToIntFrom(s, i + 1, acc * 10 + DigitValue(s[i]))

\* int(s): the number a string of decimal digits spells; any other string
\* raises ValueError (None here).
StrToInt(s) ==
    IF Len(s) > 0 /\ \A i \in 1..Len(s) : IsDigit(s[i])
    THEN StrToIntFrom(s, 1, 0)
    ELSE None

\* ----------------------------------------------------------- float values

(* A DataFrame cell is an exact rational <<num, den>> in lowest terms with   *)
(* den > 0; <<0, 0>> is NaN and <<1, 0>>, <<-1, 0>> are +inf, -inf, the      *)
(* values float division by zero gives in pandas.                           *)
NaN == <<0, 0>>

Abs(n) == IF n < 0 THEN 0 - n ELSE n

Sign(n) == IF n < 0 THEN 0 - 1 ELSE IF n > 0 THEN 1 ELSE 0

RECURSIVE Gcd(_, _)
Gcd(a, b) == IF b = 0 THEN a ELSE Gcd(b, a % b)

Frac(n, d) ==
    IF d = 0 THEN <<Sign(n), 0>>
    ELSE LET g == Gcd(Abs(n), Abs(d))
             s == Sign(d)
         IN  <<(s * n) \div g, (s * d) \div g>>

\* A stored number as a DataFrame cell: None becomes NaN.
ToFloat(v) == IF v = None THEN NaN ELSE <<v, 1>>

FMul(x, y) == IF x[2] = 0 \/ y[2] = 0
              THEN <<Sign(x[1]) * Sign(y[1]), 0>>
              ELSE Frac(x[1] * y[1], x[2] * y[2])

FSub(x, y) == IF x[2] = 0 /\ y[2] = 0
              THEN (IF x[1] = 0 \/ y[1] = 0 \/ x[1] = y[1] THEN NaN ELSE x)
              ELSE IF x[2] = 0 THEN x
              ELSE IF y[2] = 0 THEN <<0 - y[1], 0>>
              ELSE Frac(x[1] * y[2] - y[1] * x[2], x[2] * y[2])

FDiv(x, y) == IF x[2] = 0 /\ y[2] = 0 THEN NaN
              ELSE IF x[2] = 0 THEN <<x[1] * (IF y[1] < 0 THEN 0 - 1 ELSE 1), 0>>
              ELSE IF y[2] = 0 THEN (IF y[1] = 0 THEN NaN ELSE <<0, 1>>)
              ELSE Frac(x[1] * y[2], x[2] * y[1])

\* ------------------------------------------------------ market data provider

\* What the search endpoint knows: a plain quote, a quote whose name holds a
\* parenthesis and whose symbol carries an exchange suffix, and a quote
\* without a symbol.
QuoteA == [symbol |-> <<"A">>, shortname |-> <<"a">>, exchange |-> <<"X">>]
QuoteB == [symbol |-> <<"B", ".", "N", "S">>,
           shortname |-> <<"b", " ", "(", "c", ")">>, exchange |-> <<"N">>]
QuoteE == [symbol |-> <<>>, shortname |-> <<"e">>, exchange |-> <<"X">>]

\* The search box's contents the model draws: empty, too short, two searches.
QueryShort == <<"a", "b">>
Query1 == <<"a", "b", "c">>
Query2 == <<"b", "c", "d">>
Queries == {<<>>, QueryShort, Query1, Query2}

\* requests.get(...).json(): the quotes found, or not ok (a network or parse
\* error raised).
SearchResponses(query) ==
    {[ok |-> FALSE, quotes |-> <<>>],
     [ok |-> TRUE,
      quotes |-> IF query = Query1 THEN <<QuoteA, QuoteB>>
                 ELSE <<QuoteE, QuoteA>>]}

\* Spot and closing prices the provider quotes.
Prices == {100, 150}

\* ticker.info: not ok (it raised), or a dict whose 'currentPrice' is a
\* price or is missing (None).
InfoResponses ==
    {[ok |-> FALSE, currentPrice |-> None]}
        \cup {[ok |-> TRUE, currentPrice |-> p] : p \in {None} \cup Prices}

\* ticker.history(period="1d")['Close'].iloc[-1]: the last close, or None
\* when the frame is empty (IndexError) or the call raises.
HistoryResponses == {None} \cup Prices

\* The closes of the series a form's historical lookup may get.
HistPrices == {100}

\* The quantities the "Quantity" input returns of those a user may type: it
\* refuses what is below min_value.
Quantities == {q \in {0, 1, 10} : q >= MinQuantity}

\* Purchase dates the user picks (days of one calendar month).
FormDates == {10, 11}

\* The prices "Price per Share" returns of those a user may type: it refuses
\* what is below min_value.
TypedPrices == {p \in {0, 100} : p >= MinPrice}

\* --------------------------------------------------------------- search

Take(s, n) == SubSeq(s, 1, IF Len(s) < n THEN Len(s) ELSE n)

\* get_ticker_recommendations, given what requests.get returned.
get_ticker_recommendations(response) ==
    IF ~response.ok THEN <<>>
    ELSE LET quotes == Take(response.quotes, SearchLimit)
         IN  [i \in 1..Len(quotes) |->
                 [symbol |-> quotes[i].symbol,
                  name |-> quotes[i].shortname,
                  exchange |-> quotes[i].exchange]]

\* f"{rec['symbol']} | {rec['name']} ({rec['exchange']})"
OptionLabel(rec) ==
    rec.symbol \o <<" ", "|", " ">> \o rec.name \o <<" ", "(">>
        \o rec.exchange \o <<")">>

Options(recs) == [i \in 1..Len(recs) |-> OptionLabel(recs[i])]

\* selected.split(" | ")[0]
TickerSymbol(selected) == split(selected, <<" ", "|", " ">>)[1]

\* "₹" if ".NS" in ticker_symbol or ".BO" in ticker_symbol else "$"
Currency(ticker_symbol) ==
    IF contains(ticker_symbol, <<".", "N", "S">>)
       \/ contains(ticker_symbol, <<".", "B", "O">>)
    THEN <<"R">> ELSE <<"$">>

\* info.get('currentPrice', ticker.history(period="1d")['Close'].iloc[-1])
\* inside the try: the default is evaluated before get is called, so an
\* empty history fails the preview even when 'currentPrice' is there.
PreviewPrice(info, hist) ==
    IF ~info.ok \/ hist = None THEN Unbound
    ELSE IF info.currentPrice = None THEN hist
    ELSE info.currentPrice

\* --------------------------------------------------- historical price lookup

\* The sessions of a daily series, oldest first: [day, close].
\* yf.download(ticker, start, end): the sessions with start <= day < end.
Download(series, start, end) ==
    SelectSeq(series, LAMBDA r : start <= r.day /\ r.day < end)

\* The lookup, were it to take the window's first session (.iloc[0]).
get_historical_price_Oldest(provider, date) ==
    IF ~provider.ok THEN None
    ELSE LET end_date == date + EndOffsetDays
             data == Download(provider.series, date - LookBackDays, end_date)
             upto == SelectSeq(data, LAMBDA r : r.day <= date)
         IN  IF data # <<>> /\ upto # <<>>
             THEN upto[1].close
             ELSE None

\* get_historical_price, given the provider's answer: not ok (yf.download
\* raised) or the ticker's daily series.
get_historical_price(provider, date) ==
    IF ~provider.ok THEN None
    ELSE LET end_date == date + EndOffsetDays
             data == Download(provider.series, date - LookBackDays, end_date)
             upto == SelectSeq(data, LAMBDA r : r.day <= date)
         IN  IF data # <<>> /\ upto # <<>>
             THEN upto[Len(upto)].close
             ELSE None

\* --------------------------------------------------------------- holdings

Pad2(n) == IF n < 10 THEN <<"0">> \o IntToStr(n) ELSE IntToStr(n)

\* buy_date.strftime("%Y-%m-%d"), for the days of January 2023.
strftime(day) ==
    <<"2", "0", "2", "3", "-", "0", "1", "-">> \o Pad2(day)

\* The dict "Add to Portfolio" appends.
NewHolding(selected, ticker_symbol, quantity, buy_price, buy_date, current_price) ==
    [symbol |-> ticker_symbol,
     name |-> split(split(selected, <<" ", "|", " ">>)[2], <<" ", "(">>)[1],
     quantity |-> quantity,
     buy_price |-> buy_price,
     buy_date |-> strftime(buy_date),
     current_price |-> current_price,
     exchange |-> replace(split(selected, <<"(">>)[2], <<")">>, <<>>)]

\* The add, were it to insert at the front.
AddToPortfolio_Prepend(portfolio, holding) == <<holding>> \o portfolio

\* new_portfolio = portfolio.copy(); new_portfolio.append({...})
AddToPortfolio(portfolio, holding) == Append(portfolio, holding)

\* f"{i+1}. {item['symbol']} - {item['name']} (Qty: {item['quantity']})",
\* i the 0-based position.
DeleteLabel(i, item) ==
    IntToStr(i + 1) \o <<".", " ">> \o item.symbol \o <<" ", "-", " ">>
        \o item.name \o <<" ", "(", "Q", "t", "y", ":", " ">>
        \o IntToStr(item.quantity) \o <<")">>

DeleteOptions(portfolio) ==
    [k \in 1..Len(portfolio) |-> DeleteLabel(k - 1, portfolio[k])]

\* The index, were the label's 1-based number taken as it stands.
SelectedIndex_OneBased(delete_index) ==
    StrToInt(split(delete_index, <<".">>)[1])

\* int(delete_index.split(".")[0]) - 1
SelectedIndex(delete_index) == StrToInt(split(delete_index, <<".">>)[1]) - 1

\* 0 <= selected_index < len(portfolio)
IndexInRange(portfolio, selected_index) ==
    0 <= selected_index /\ selected_index < Len(portfolio)

\* [item for i, item in enumerate(portfolio) if i != selected_index]
RemoveAt(portfolio, selected_index) ==
    LET keep == SelectSeq([k \in 1..Len(portfolio) |-> k],
                          LAMBDA k : k - 1 # selected_index)
    IN  [j \in 1..Len(keep) |-> portfolio[keep[j]]]

\* --------------------------------------------------------------- refresh

\* The loop's body, were a failed lookup to zero the price.
RefreshHolding_Zeroed(holding, close) ==
    [holding EXCEPT !.current_price = IF close = None THEN 0 ELSE close]

\* One pass of the refresh loop's body: the lookup's close, or None when
\* the lookup raised or gave an empty frame.
RefreshHolding(holding, close) ==
    IF close = None THEN holding
    ELSE [holding EXCEPT !.current_price = close]

\* ----------------------------------------------------------- derived table

\* The row, were pnl_pct left as a ratio.
DerivedRow_Ratio(h) ==
    LET quantity == ToFloat(h.quantity)
        investment == FMul(quantity, ToFloat(h.buy_price))
        current_value == FMul(quantity, ToFloat(h.current_price))
        pnl == FSub(current_value, investment)
    IN  [symbol |-> h.symbol,
         investment |-> investment,
         current_value |-> current_value,
         pnl |-> pnl,
         pnl_pct |-> FDiv(pnl, investment)]

\* The four columns "Calculate metrics" adds to one row.
DerivedRow(h) ==
    LET quantity == ToFloat(h.quantity)
        investment == FMul(quantity, ToFloat(h.buy_price))
        current_value == FMul(quantity, ToFloat(h.current_price))
        pnl == FSub(current_value, investment)
    IN  [symbol |-> h.symbol,
         investment |-> investment,
         current_value |-> current_value,
         pnl |-> pnl,
         pnl_pct |-> FMul(FDiv(pnl, investment), <<100, 1>>)]

compute_rows(portfolio) == [i \in 1..Len(portfolio) |-> DerivedRow(portfolio[i])]

\* portfolio_df["quantity"] * portfolio_df["buy_price"] raises TypeError when
\* the buy_price column holds only None (an object column); a None among
\* numbers is NaN in a float column.
MetricsRaise(portfolio) ==
    \A i \in 1..Len(portfolio) : portfolio[i].buy_price = None

\* ------------------------------------------------------------- persistence

\* json.dumps of one holding: its items in insertion order, each value
\* tagged with its JSON type.
JsonNumber(v) == IF v = None THEN <<"null">> ELSE <<"number", IntToStr(v)>>

DumpHolding(h) ==
    << <<"symbol", <<"string", h.symbol>> >>,
       <<"name", <<"string", h.name>> >>,
       <<"quantity", JsonNumber(h.quantity)>>,
       <<"buy_price", JsonNumber(h.buy_price)>>,
       <<"buy_date", <<"string", h.buy_date>> >>,
       <<"current_price", JsonNumber(h.current_price)>>,
       <<"exchange", <<"string", h.exchange>> >> >>

json_dumps(portfolio) == [i \in 1..Len(portfolio) |-> DumpHolding(portfolio[i])]

LoadValue(v) ==
    IF v[1] = "null" THEN None
    ELSE IF v[1] = "number" THEN StrToInt(v[2])
    ELSE v[2]

JsonGet(obj, key) ==
    LoadValue(obj[CHOOSE k \in 1..Len(obj) : obj[k][1] = key][2])

LoadHolding(obj) ==
    [symbol |-> JsonGet(obj, "symbol"),
     name |-> JsonGet(obj, "name"),
     quantity |-> JsonGet(obj, "quantity"),
     buy_price |-> JsonGet(obj, "buy_price"),
     buy_date |-> JsonGet(obj, "buy_date"),
     current_price |-> JsonGet(obj, "current_price"),
     exchange |-> JsonGet(obj, "exchange")]

json_loads(text) == [i \in 1..Len(text) |-> LoadHolding(text[i])]

\* The query parameters' values for 'portfolio': none, or the one text
\* save_portfolio set.
\* load_portfolio when 'portfolio' is not in st.session_state.
load_portfolio(params) == IF params = <<>> THEN <<>> ELSE json_loads(params[1])

\* ------------------------------------------------------------------ state

VARIABLES
    \* st.session_state and the page URL
    portfolio,          \* st.session_state.portfolio
    query_params,       \* the URL's values for 'portfolio'
    last_search,        \* st.session_state.last_search
    selected_ticker,    \* st.session_state.selected_ticker
    fetched_price,      \* st.session_state.fetched_price
    recommendations,    \* st.session_state.recommendations
    \* the run
    pc,                 \* the section the script is about to execute
    clicked,            \* the button whose click started this run
    rendered,           \* the buttons the page shows
    \* script locals
    selected,           \* the option picked in "Select a stock:"
    ticker_symbol,
    current_price,
    currency,
    quantity,
    buy_date,
    hist_price,
    buy_price,
    new_portfolio,      \* the list the refresh loop builds
    closes,             \* what each lookup of this refresh gave
    delete_select,      \* 0-based position picked in "Select stock to remove"
    portfolio_df,       \* the derived table
    \* history: the ticker and date fetched_price was fetched for
    fetched_for,
    \* inputs of the functions checked on their own
    provider,
    req_date,
    delete_index

session == <<portfolio, query_params, last_search, selected_ticker,
             fetched_price, recommendations>>

preview_locals == <<selected, ticker_symbol, current_price, currency>>

form_locals == <<quantity, buy_date, hist_price, buy_price>>

refresh_locals == <<new_portfolio, closes>>

pure_inputs == <<provider, req_date, delete_index>>

vars == <<portfolio, query_params, last_search, selected_ticker,
          fetched_price, recommendations, pc, clicked, rendered,
          selected, ticker_symbol, current_price, currency,
          quantity, buy_date, hist_price, buy_price,
          new_portfolio, closes, delete_select, portfolio_df,
          fetched_for, provider, req_date, delete_index>>

NoFetch == [ticker |-> NoneText, date |-> None]

NoProvider == [ok |-> FALSE, series |-> <<>>]

\* A fresh script namespace: every run starts with no local assigned.
FreshLocals ==
    /\ selected' = UnboundText
    /\ ticker_symbol' = UnboundText
    /\ current_price' = Unbound
    /\ currency' = UnboundText
    /\ quantity' = Unbound
    /\ buy_date' = Unbound
    /\ hist_price' = Unbound
    /\ buy_price' = Unbound
    /\ new_portfolio' = <<>>
    /\ closes' = <<>>
    /\ delete_select' = Unbound
    /\ portfolio_df' = <<>>

\* save_portfolio, were it to leave the query parameters alone.
save_portfolio_SessionOnly(new) ==
    /\ portfolio' = new
    /\ UNCHANGED query_params

\* save_portfolio(new)
save_portfolio(new) ==
    /\ portfolio' = new
    /\ query_params' = <<json_dumps(new)>>

\* The lines "Initialize all session state variables", in a new session.
SessionInit(params) ==
    /\ portfolio' = load_portfolio(params)
    /\ last_search' = <<>>
    /\ selected_ticker' = NoneText
    /\ fetched_price' = None
    /\ recommendations' = <<>>

\* A session opened on a URL without parameters, before its first run.
\* pc = "start": a run is about to begin with no button clicked (the page
\* was loaded, or st.rerun() was called).
Init ==
    /\ portfolio = load_portfolio(<<>>)
    /\ query_params = <<>>
    /\ last_search = <<>>
    /\ selected_ticker = NoneText
    /\ fetched_price = None
    /\ recommendations = <<>>
    /\ pc = "start"
    /\ clicked = "none"
    /\ rendered = {}
    /\ selected = UnboundText
    /\ ticker_symbol = UnboundText
    /\ current_price = Unbound
    /\ currency = UnboundText
    /\ quantity = Unbound
    /\ buy_date = Unbound
    /\ hist_price = Unbound
    /\ buy_price = Unbound
    /\ new_portfolio = <<>>
    /\ closes = <<>>
    /\ delete_select = Unbound
    /\ portfolio_df = <<>>
    /\ fetched_for = NoFetch
    /\ provider = NoProvider
    /\ req_date = None
    /\ delete_index = UnboundText

\* The runs that ended with an uncaught exception, by the line that raised.
CrashPcs == {"crash201", "crash206", "crash258", "crash311"}

\* The page is at rest: the last run ended, normally or not.
AtRest == pc = "idle" \/ pc \in CrashPcs

\* The buttons a user can click: those on the page (the model stops adding
\* at MaxAppHoldings).
Clickable ==
    {b \in rendered : b = "add" => Len(portfolio) < MaxAppHoldings}

\* The locals of lines 124-209 are read by no line after the Add button.
DropFormLocals ==
    /\ selected' = UnboundText
    /\ ticker_symbol' = UnboundText
    /\ current_price' = Unbound
    /\ currency' = UnboundText
    /\ quantity' = Unbound
    /\ buy_date' = Unbound
    /\ hist_price' = Unbound
    /\ buy_price' = Unbound

\* ------------------------------------------------------------------ a run

\* Lines 109-121: a run starts (an interaction, a page load or st.rerun()),
\* the search box is read and a changed query of 3 characters or more is
\* searched.  One interaction starts one run: a run started by a button or
\* by st.rerun() finds in the box the text the run before it found there.
Search ==
    /\ AtRest \/ pc = "start"
    /\ clicked' \in (IF pc = "start" THEN {"none"} ELSE {"none"} \cup Clickable)
    /\ rendered' = {}
    /\ FreshLocals
    /\ \E search_query \in Queries :
         IF search_query # <<>> /\ Len(search_query) >= MinQueryLen
            /\ search_query # last_search
            /\ AtRest /\ clicked' = "none"
         THEN /\ last_search' = search_query
              /\ \E response \in SearchResponses(search_query) :
                   recommendations' = get_ticker_recommendations(response)
         ELSE UNCHANGED <<last_search, recommendations>>
    /\ pc' = IF recommendations' # <<>> THEN "preview" ELSE "portfolio"
    /\ UNCHANGED <<portfolio, query_params, selected_ticker, fetched_price,
                   fetched_for, pure_inputs>>

\* Lines 124-179: the stock is picked and previewed.  The chart's try/except
\* changes nothing the script keeps.  A run started by a button finds the
\* stock picked that the page showed.
Preview ==
    /\ pc = "preview"
    /\ \E k \in 1..Len(recommendations), info \in InfoResponses,
          hist \in HistoryResponses :
         LET label == Options(recommendations)[k]
             price == PreviewPrice(info, hist)
         IN  /\ clicked # "none" => TickerSymbol(label) = selected_ticker
             /\ selected' = label
             /\ ticker_symbol' = TickerSymbol(label)
             /\ selected_ticker' = TickerSymbol(label)
             /\ current_price' = price
             /\ currency' = IF price = Unbound THEN UnboundText
                            ELSE Currency(TickerSymbol(label))
    /\ pc' = "form"
    /\ UNCHANGED <<portfolio, query_params, last_search, fetched_price,
                   recommendations, clicked, rendered, form_locals,
                   refresh_locals, delete_select, portfolio_df, fetched_for,
                   pure_inputs>>

\* The series yf.download may answer a form's lookup with: an error, no
\* session, a session on the date, one the day before.
FormProviders(date) ==
    {NoProvider,
     [ok |-> TRUE, series |-> <<>>],
     [ok |-> TRUE, series |-> <<[day |-> date + 1, close |-> 150]>>]}
        \cup {[ok |-> TRUE, series |-> <<[day |-> date - 1, close |-> p]>>] :
                 p \in HistPrices}

\* Lines 183-209: quantity, purchase date, the historical price of that date
\* and the "Price per Share" input pre-filled from st.session_state.
Form ==
    /\ pc = "form"
    /\ \E q \in Quantities, d \in FormDates, typed \in {None} \cup TypedPrices :
         /\ quantity' = q
         /\ buy_date' = d
         /\ IF selected_ticker # NoneText /\ selected_ticker # <<>>
            THEN \E answer \in FormProviders(d) :
                   hist_price' = get_historical_price(answer, d)
            ELSE hist_price' = Unbound
         /\ IF hist_price' # Unbound /\ hist_price' # None
            THEN /\ fetched_price' = hist_price'
                 /\ fetched_for' = [ticker |-> ticker_symbol, date |-> d]
            ELSE UNCHANGED <<fetched_price, fetched_for>>
         /\ IF hist_price' # Unbound /\ hist_price' # None
               /\ currency = UnboundText
            THEN \* st.success(f"... {currency}{hist_price:.2f}"): NameError
                 /\ pc' = "crash201"
                 /\ buy_price' = Unbound
            ELSE IF current_price = Unbound
            THEN \* .get('fetched_price', current_price): NameError
                 /\ pc' = "crash206"
                 /\ buy_price' = Unbound
            ELSE /\ pc' = "button"
                 /\ buy_price' = IF typed = None THEN fetched_price' ELSE typed
    /\ UNCHANGED <<portfolio, query_params, last_search, selected_ticker,
                   recommendations, clicked, rendered, preview_locals,
                   refresh_locals, delete_select, portfolio_df, pure_inputs>>

\* Lines 211-230: the Add button.
AddButton ==
    /\ pc = "button"
    /\ IF clicked = "add" /\ ticker_symbol # <<>>
       THEN /\ save_portfolio(AddToPortfolio(portfolio,
                   NewHolding(selected, ticker_symbol, quantity, buy_price,
                              buy_date, current_price)))
            /\ pc' = "start"
       ELSE /\ pc' = "portfolio"
            /\ UNCHANGED <<portfolio, query_params>>
    /\ rendered' = rendered \cup {"add"}
    /\ DropFormLocals
    /\ UNCHANGED <<last_search, selected_ticker, fetched_price,
                   recommendations, clicked, refresh_locals, delete_select,
                   portfolio_df, fetched_for, pure_inputs>>

\* Lines 233-239 and 343-347: an empty portfolio shows the hint and neither
\* the table nor the Clear button; otherwise the refresh loop starts.
PortfolioSection ==
    /\ pc = "portfolio"
    /\ pc' = IF portfolio = <<>> THEN "idle" ELSE "refresh"
    /\ UNCHANGED <<session, clicked, rendered, preview_locals, form_locals,
                   refresh_locals, delete_select, portfolio_df, fetched_for,
                   pure_inputs>>

\* The loop's pass, were it to write the price into the stored dict itself
\* (holding['current_price'] = ... without holding.copy()).
RefreshOne_InPlace ==
    /\ pc = "refresh"
    /\ Len(new_portfolio) < Len(portfolio)
    /\ \E close \in HistoryResponses :
         LET i == Len(new_portfolio) + 1
             updated == RefreshHolding(portfolio[i], close)
         IN  /\ portfolio' = [portfolio EXCEPT ![i] = updated]
             /\ new_portfolio' = Append(new_portfolio, updated)
             /\ closes' = Append(closes, close)
    /\ UNCHANGED <<query_params, last_search, selected_ticker, fetched_price,
                   recommendations, pc, clicked, rendered, preview_locals,
                   form_locals, delete_select, portfolio_df, fetched_for,
                   pure_inputs>>

\* Lines 240-248: one pass of the loop, for the next holding.
RefreshOne ==
    /\ pc = "refresh"
    /\ Len(new_portfolio) < Len(portfolio)
    /\ \E close \in HistoryResponses :
         /\ new_portfolio' = Append(new_portfolio,
                RefreshHolding(portfolio[Len(new_portfolio) + 1], close))
         /\ closes' = Append(closes, close)
    /\ UNCHANGED <<session, pc, clicked, rendered, preview_locals,
                   form_locals, delete_select, portfolio_df, fetched_for,
                   pure_inputs>>

\* Lines 250-251: the loop is over; the new list replaces the old one and is
\* saved.
RefreshCommit ==
    /\ pc = "refresh"
    /\ Len(new_portfolio) = Len(portfolio)
    /\ save_portfolio(new_portfolio)
    /\ pc' = "metrics"
    /\ UNCHANGED <<last_search, selected_ticker, fetched_price,
                   recommendations, clicked, rendered, preview_locals,
                   form_locals, refresh_locals, delete_select, portfolio_df,
                   fetched_for, pure_inputs>>

\* Lines 255-275: the derived table.  No later line reads the loop's locals.
Metrics ==
    /\ pc = "metrics"
    /\ IF MetricsRaise(portfolio)
       THEN /\ pc' = "crash258"
            /\ UNCHANGED portfolio_df
       ELSE /\ pc' = "manage"
            /\ portfolio_df' = compute_rows(portfolio)
    /\ new_portfolio' = <<>>
    /\ closes' = <<>>
    /\ UNCHANGED <<session, clicked, rendered, preview_locals, form_locals,
                   delete_select, fetched_for, pure_inputs>>

\* The Remove handler on a label: the list it saves, or "rejected".
RemoveSelected(list, label) ==
    LET selected_index == SelectedIndex(label)
    IN  IF IndexInRange(list, selected_index)
        THEN [saved |-> TRUE, list |-> RemoveAt(list, selected_index)]
        ELSE [saved |-> FALSE, list |-> list]

\* Lines 278-297: the removal select box and button.
Manage ==
    /\ pc = "manage"
    /\ rendered' = rendered \cup {"remove"}
    /\ \E k \in 1..Len(portfolio) :
         LET outcome == RemoveSelected(portfolio, DeleteOptions(portfolio)[k])
         IN  /\ delete_select' = k - 1
             /\ IF clicked = "remove" /\ outcome.saved
                THEN /\ save_portfolio(outcome.list)
                     /\ pc' = "start"
                ELSE /\ pc' = "analytics"
                     /\ UNCHANGED <<portfolio, query_params>>
    /\ UNCHANGED <<last_search, selected_ticker, fetched_price,
                   recommendations, clicked, preview_locals, form_locals,
                   refresh_locals, portfolio_df, fetched_for, pure_inputs>>

\* Lines 300-341: the Performance tab's yf.Ticker(selected).history(...)
\* stands outside any try; the Allocation tab reads the table only.
Analytics ==
    /\ pc = "analytics"
    /\ \E raised \in BOOLEAN :
         pc' = IF raised THEN "crash311" ELSE "clear"
    /\ UNCHANGED <<session, clicked, rendered, preview_locals, form_locals,
                   refresh_locals, delete_select, portfolio_df, fetched_for,
                   pure_inputs>>

\* Lines 347-352: the Clear button, then the script ends.
ClearButton ==
    /\ pc = "clear"
    /\ rendered' = rendered \cup {"clear"}
    /\ IF clicked = "clear"
       THEN /\ save_portfolio(<<>>)
            /\ pc' = "start"
       ELSE /\ pc' = "idle"
            /\ UNCHANGED <<portfolio, query_params>>
    /\ UNCHANGED <<last_search, selected_ticker, fetched_price,
                   recommendations, clicked, preview_locals, form_locals,
                   refresh_locals, delete_select, portfolio_df, fetched_for,
                   pure_inputs>>

\* The page is reloaded from its URL: a new session, restored from the
\* query parameters.
Reload ==
    /\ AtRest
    /\ SessionInit(query_params)
    /\ pc' = "start"
    /\ clicked' = "none"
    /\ rendered' = {}
    /\ FreshLocals
    /\ fetched_for' = NoFetch
    /\ UNCHANGED <<query_params, pure_inputs>>

Next ==
    \/ Search
    \/ Preview
    \/ Form
    \/ AddButton
    \/ PortfolioSection
    \/ RefreshOne
    \/ RefreshCommit
    \/ Metrics
    \/ Manage
    \/ Analytics
    \/ ClearButton
    \/ Reload

Spec == Init /\ [][Next]_vars

\* ---------------------------------------------------- the store on its own

(* The store's operations driven directly: instead of the search box, the    *)
(* preview and the form, a run that clicks Add starts at the Add button with  *)
(* locals the form can deliver, and any other run starts at the portfolio     *)
(* section.                                                                  *)

\* Forms the user submits: a plain lot, a lot of the suffixed symbol with the
\* price left empty, a second lot of the first symbol, a quote without symbol.
Submissions ==
    {[quote |-> QuoteA, quantity |-> 10, buy_price |-> 100, buy_date |-> 10,
      current_price |-> 100],
     [quote |-> QuoteB, quantity |-> 1, buy_price |-> None, buy_date |-> 11,
      current_price |-> 150],
     [quote |-> QuoteA, quantity |-> 1, buy_price |-> 150, buy_date |-> 11,
      current_price |-> 150],
     [quote |-> QuoteE, quantity |-> 10, buy_price |-> 100, buy_date |-> 10,
      current_price |-> 100]}

QuoteLabel(quote) ==
    OptionLabel(get_ticker_recommendations(
        [ok |-> TRUE, quotes |-> <<quote>>])[1])

\* Lines 109-209 of a run started by a click on Add, by their result.
SubmitAdd ==
    /\ AtRest
    /\ Len(portfolio) < MaxHoldings
    /\ \E s \in Submissions :
         /\ selected' = QuoteLabel(s.quote)
         /\ ticker_symbol' = TickerSymbol(QuoteLabel(s.quote))
         /\ current_price' = s.current_price
         /\ currency' = Currency(TickerSymbol(QuoteLabel(s.quote)))
         /\ quantity' = s.quantity
         /\ buy_date' = s.buy_date
         /\ hist_price' = None
         /\ buy_price' = s.buy_price
    /\ clicked' = "add"
    /\ rendered' = {}
    /\ pc' = "button"
    /\ new_portfolio' = <<>>
    /\ closes' = <<>>
    /\ delete_select' = Unbound
    /\ portfolio_df' = <<>>
    /\ UNCHANGED <<session, fetched_for, pure_inputs>>

\* Lines 109-230 of any other run: nothing is added.
Render ==
    /\ AtRest \/ pc = "start"
    /\ clicked' \in (IF pc = "start" THEN {"none"}
                     ELSE {"none"} \cup (rendered \cap {"remove", "clear"}))
    /\ rendered' = {}
    /\ FreshLocals
    /\ pc' = "portfolio"
    /\ UNCHANGED <<session, fetched_for, pure_inputs>>

NextStore ==
    \/ SubmitAdd
    \/ Render
    \/ AddButton
    \/ PortfolioSection
    \/ RefreshOne
    \/ RefreshCommit
    \/ Metrics
    \/ Manage
    \/ Analytics
    \/ ClearButton
    \/ Reload

SpecStore == Init /\ [][NextStore]_vars

\* ------------------------------------------- the pure functions on their own

\* The other variables of a specification that applies one function.
IdleRest ==
    /\ last_search = <<>>
    /\ selected_ticker = NoneText
    /\ fetched_price = None
    /\ recommendations = <<>>
    /\ clicked = "none"
    /\ rendered = {}
    /\ selected = UnboundText
    /\ ticker_symbol = UnboundText
    /\ current_price = Unbound
    /\ currency = UnboundText
    /\ quantity = Unbound
    /\ buy_date = Unbound
    /\ buy_price = Unbound
    /\ new_portfolio = <<>>
    /\ closes = <<>>
    /\ portfolio_df = <<>>
    /\ fetched_for = NoFetch

\* The lists of at most n elements of S.
ListsUpTo(S, n) == UNION {[1..k -> S] : k \in 0..n}

\* Holdings as "Add to Portfolio" builds them from the submissions, at each
\* price a refresh may have left.
StoreHoldings ==
    {[NewHolding(QuoteLabel(s.quote), TickerSymbol(QuoteLabel(s.quote)),
                 s.quantity, s.buy_price, s.buy_date, s.current_price)
        EXCEPT !.current_price = p] :
       s \in {t \in Submissions : t.quote.symbol # <<>>}, p \in Prices}

\* ---- get_historical_price

\* The provider's closing price of a day: each day its own, so that a price
\* names its session.
CloseOn(day) == 100 + day

RECURSIVE SeriesOf(_)
\* The daily series whose sessions are the days of S, oldest first.
SeriesOf(S) ==
    IF S = {} THEN <<>>
    ELSE LET last == CHOOSE d \in S : \A e \in S : e <= d
         IN  Append(SeriesOf(S \ {last}), [day |-> last, close |-> CloseOn(last)])

\* Requested dates: late enough that days lie before the look-back window,
\* early enough that days follow the date.
HistDates == {MaxDay - 2, MaxDay - 1}

InitHist ==
    /\ pc = "hist"
    /\ req_date \in HistDates
    /\ provider \in {NoProvider}
           \cup {[ok |-> TRUE, series |-> SeriesOf(S)] : S \in SUBSET (1..MaxDay)}
    /\ hist_price = Unbound
    /\ portfolio = <<>>
    /\ query_params = <<>>
    /\ delete_select = Unbound
    /\ delete_index = UnboundText
    /\ IdleRest

\* hist_price = get_historical_price(ticker_symbol, buy_date)
HistLookup ==
    /\ pc = "hist"
    /\ hist_price' = get_historical_price(provider, req_date)
    /\ pc' = "hist_done"
    /\ UNCHANGED <<session, clicked, rendered, preview_locals, quantity,
                   buy_date, buy_price, refresh_locals, delete_select,
                   portfolio_df, fetched_for, pure_inputs>>

SpecHist == InitHist /\ [][HistLookup]_vars

\* ---- the derived table

RowHoldings ==
    {[symbol |-> sym, name |-> <<"n">>, quantity |-> q, buy_price |-> bp,
      buy_date |-> strftime(10), current_price |-> cp, exchange |-> <<"X">>] :
       sym \in {<<"A">>}, q \in Quantities, bp \in Prices, cp \in Prices}

InitRows ==
    /\ pc = "rows"
    /\ portfolio \in ListsUpTo(RowHoldings, MaxList)
    /\ query_params = <<json_dumps(portfolio)>>
    /\ hist_price = Unbound
    /\ delete_select = Unbound
    /\ provider = NoProvider
    /\ req_date = None
    /\ delete_index = UnboundText
    /\ IdleRest

\* "Calculate metrics" on st.session_state.portfolio, as often as asked.
ComputeRows ==
    /\ pc \in {"rows", "rows_done"}
    /\ portfolio_df' = compute_rows(portfolio)
    /\ pc' = "rows_done"
    /\ UNCHANGED <<session, clicked, rendered, preview_locals, form_locals,
                   refresh_locals, delete_select, fetched_for, pure_inputs>>

SpecRows == InitRows /\ [][ComputeRows]_vars

\* ---- the Remove handler

\* The label of position i of a list: the one the select box shows, or, for a
\* position the list does not have, one a longer list would show.
LabelFor(list, i, item) ==
    DeleteLabel(i, IF 0 <= i /\ i < Len(list) THEN list[i + 1] ELSE item)

InitRemove ==
    /\ pc = "remove"
    /\ portfolio \in ListsUpTo(StoreHoldings, MaxList)
    /\ query_params = <<json_dumps(portfolio)>>
    /\ delete_select \in (0 - 1)..(MaxList + 1)
    /\ \E item \in StoreHoldings :
         delete_index = LabelFor(portfolio, delete_select, item)
    /\ hist_price = Unbound
    /\ provider = NoProvider
    /\ req_date = None
    /\ IdleRest

\* Lines 289-297 on the label delete_index.
RemoveHandler ==
    /\ pc = "remove"
    /\ LET outcome == RemoveSelected(portfolio, delete_index)
       IN  IF outcome.saved
           THEN /\ save_portfolio(outcome.list)
                /\ pc' = "removed"
           ELSE /\ pc' = "rejected"
                /\ UNCHANGED <<portfolio, query_params>>
    /\ UNCHANGED <<last_search, selected_ticker, fetched_price,
                   recommendations, clicked, rendered, preview_locals,
                   form_locals, refresh_locals, delete_select, portfolio_df,
                   fetched_for, pure_inputs>>

SpecRemove == InitRemove /\ [][RemoveHandler]_vars

\* ----------------------------------------------------------------- claims

\* The fields of a holding that are fixed when it is added.
Frame(h) ==
    [symbol |-> h.symbol, name |-> h.name, quantity |-> h.quantity,
     buy_price |-> h.buy_price, buy_date |-> h.buy_date,
     exchange |-> h.exchange]

(* C1: while the refresh loop runs, the list it has built matches the stored  *)
(* list position by position: a holding whose lookup failed is there as it    *)
(* was, one whose lookup succeeded carries the fetched price; every holding   *)
(* gets its pass whatever the earlier lookups did, and the list that replaces *)
(* the stored one has its length and order and equals it when every lookup    *)
(* failed.                                                                    *)
C1_RefreshKeepsStalePrices ==
    [][/\ pc = "refresh" =>
            /\ Len(new_portfolio) = Len(closes)
            /\ Len(new_portfolio) <= Len(portfolio)
            /\ \A i \in 1..Len(new_portfolio) :
                 /\ closes[i] = None => new_portfolio[i] = portfolio[i]
                 /\ closes[i] # None =>
                      /\ new_portfolio[i].current_price = closes[i]
                      /\ Frame(new_portfolio[i]) = Frame(portfolio[i])
            /\ Len(new_portfolio) < Len(portfolio) => ENABLED RefreshOne
       /\ (pc = "refresh" /\ pc' = "metrics") =>
            /\ portfolio' = new_portfolio
            /\ Len(portfolio') = Len(portfolio)
            /\ (\A i \in 1..Len(closes) : closes[i] = None)
                   => portfolio' = portfolio]_vars

\* C1's case: a finished batch of two or more lookups in which one failed and
\* another brought a price different from the stored one.
C1_Witness ==
    /\ pc = "refresh"
    /\ Len(new_portfolio) = Len(portfolio)
    /\ \E i, j \in 1..Len(portfolio) :
         /\ closes[i] = None
         /\ closes[j] # None
         /\ closes[j] # portfolio[j].current_price
         /\ i < j

(* C2: no run ends with an uncaught exception caused by the provider (the     *)
(* spot price, company info or history failing), and after a run that ended   *)
(* with a portfolio the Remove and Clear buttons are on the page.             *)
C2_ProviderFailuresRecovered ==
    /\ pc \notin {"crash201", "crash206", "crash311"}
    /\ (pc = "idle" /\ portfolio # <<>>) => {"remove", "clear"} \subseteq rendered

(* C3: every stored holding has quantity > 0, buy_price > 0 and a non-empty   *)
(* symbol.                                                                    *)
C3_HoldingsValid ==
    \A i \in 1..Len(portfolio) :
        /\ portfolio[i].quantity > 0
        /\ portfolio[i].buy_price > 0
        /\ portfolio[i].symbol # <<>>

(* C4: the list the query parameters restore is the session's list in every   *)
(* state, and right after an add, a remove, a clear or the refresh's          *)
(* replacement the parameters hold the dump of the session's list.            *)
C4_PersistedEqualsSession ==
    /\ load_portfolio(query_params) = portfolio
    /\ (pc = "metrics" \/ (pc = "start" /\ clicked # "none"))
           => query_params = <<json_dumps(portfolio)>>

\* C4's case: the refresh has just replaced a list of two or more holdings,
\* with a fetched price in it.
C4_Witness ==
    /\ pc = "metrics"
    /\ Len(portfolio) >= 2
    /\ \E i \in 1..Len(closes) : closes[i] # None
    /\ query_params = <<json_dumps(portfolio)>>

(* C5: an add makes the list one longer, leaves the earlier elements as they  *)
(* were and in place, and puts last the record of the submitted form.         *)
C5_AddAppendsOne ==
    [][(pc = "button" /\ pc' = "start") =>
          /\ Len(portfolio') = Len(portfolio) + 1
          /\ \A i \in 1..Len(portfolio) : portfolio'[i] = portfolio[i]
          /\ LET last == portfolio'[Len(portfolio')]
             IN  /\ last.symbol = ticker_symbol
                 /\ last.quantity = quantity
                 /\ last.buy_price = buy_price
                 /\ last.buy_date = strftime(buy_date)
                 /\ last.current_price = current_price
                 /\ last = NewHolding(selected, ticker_symbol, quantity,
                                      buy_price, buy_date, current_price)]_vars

\* C5's case: an add to a store that held something, the new record last and
\* different from the first.
C5_Witness ==
    /\ pc = "start"
    /\ clicked = "add"
    /\ Len(portfolio) >= 2
    /\ portfolio[Len(portfolio)].symbol # portfolio[1].symbol

(* C6: the Remove handler on the label of position i: for i in [0, len) the   *)
(* saved list is one shorter, has the elements before i in place and those    *)
(* after i moved up by one; for any other i nothing is saved and the list     *)
(* stays.                                                                     *)
C6_RemoveAtIndex ==
    [][pc = "remove" =>
          IF 0 <= delete_select /\ delete_select < Len(portfolio)
          THEN /\ pc' = "removed"
               /\ Len(portfolio') = Len(portfolio) - 1
               /\ \A j \in 1..Len(portfolio') :
                    portfolio'[j] = IF j <= delete_select THEN portfolio[j]
                                    ELSE portfolio[j + 1]
               /\ query_params' = <<json_dumps(portfolio')>>
          ELSE /\ pc' = "rejected"
               /\ portfolio' = portfolio
               /\ query_params' = query_params]_vars

\* C6's case: the middle one of three holdings was removed, the two left
\* differing.
C6_Witness ==
    /\ pc = "removed"
    /\ delete_select = 1
    /\ Len(portfolio) = 2
    /\ portfolio[1] # portfolio[2]

(* C7: no step changes a stored holding's symbol, name, quantity, buy_price,  *)
(* buy_date or exchange: an add keeps the earlier records, a remove keeps the *)
(* others, and any other step keeps the list's length and every record's      *)
(* fixed fields.  Only the refresh's replacement changes current_price, and   *)
(* while the loop builds the new list the stored records stay as they are.    *)
C7_OnlyCurrentPriceChanges ==
    [][/\ (pc = "refresh" /\ pc' = "refresh") => portfolio' = portfolio
       /\ (pc = "button" /\ pc' = "start") =>
            \A i \in 1..Len(portfolio) : portfolio'[i] = portfolio[i]
       /\ (pc = "manage" /\ pc' = "start") =>
            \A j \in 1..Len(portfolio') :
               portfolio'[j] = IF j <= delete_select' THEN portfolio[j]
                               ELSE portfolio[j + 1]
       /\ ~(pc \in {"button", "manage", "clear"} /\ pc' = "start") =>
            /\ Len(portfolio') = Len(portfolio)
            /\ \A i \in 1..Len(portfolio) :
                 Frame(portfolio'[i]) = Frame(portfolio[i])
            /\ ~(pc = "refresh" /\ pc' = "metrics") => portfolio' = portfolio]_vars

\* C7's case: the loop has put a record with a new price into the new list
\* while the stored record still has the old one.
C7_Witness ==
    /\ pc = "refresh"
    /\ Len(new_portfolio) >= 1
    /\ new_portfolio[1].current_price # portfolio[1].current_price
    /\ Frame(new_portfolio[1]) = Frame(portfolio[1])

\* The derived table of a list of holdings with numbers in every field.
RowsAsSpecified(list, rows) ==
    /\ Len(rows) = Len(list)
    /\ \A i \in 1..Len(list) :
         LET h == list[i]
             investment == h.quantity * h.buy_price
             current_value == h.quantity * h.current_price
         IN  /\ rows[i].symbol = h.symbol
             /\ rows[i].investment = <<investment, 1>>
             /\ rows[i].current_value = <<current_value, 1>>
             /\ rows[i].pnl = <<current_value - investment, 1>>
             /\ rows[i].pnl_pct[2] > 0
             /\ rows[i].pnl_pct[1] * investment
                    = (current_value - investment) * 100 * rows[i].pnl_pct[2]
             /\ (h.quantity = 10 /\ h.buy_price = 100 /\ h.current_price = 100)
                    => /\ rows[i].investment = <<1000, 1>>
                       /\ rows[i].current_value = <<1000, 1>>
                       /\ rows[i].pnl = <<0, 1>>
                       /\ rows[i].pnl_pct = <<0, 1>>
             /\ (h.quantity = 10 /\ h.buy_price = 100 /\ h.current_price = 150)
                    => /\ rows[i].current_value = <<1500, 1>>
                       /\ rows[i].pnl = <<500, 1>>
                       /\ rows[i].pnl_pct = <<50, 1>>

(* C8: computing the table gives one row per holding, in order, with          *)
(* investment = quantity x buy_price, current_value = quantity x              *)
(* current_price, pnl their difference and pnl_pct = pnl / investment x 100;  *)
(* it leaves the holdings alone, and computing it again gives the same table. *)
C8_RowsFollowFormulas ==
    [][/\ pc' = "rows_done" => RowsAsSpecified(portfolio, portfolio_df')
       /\ portfolio' = portfolio
       /\ pc = "rows_done" => portfolio_df' = portfolio_df]_vars

\* C8's case: the table of a list whose first holding is the spec's example
\* at 150 and whose second made a loss that is no whole percentage.
C8_Witness ==
    /\ pc = "rows_done"
    /\ Len(portfolio) >= 2
    /\ portfolio[1].quantity = 10 /\ portfolio[1].buy_price = 100
    /\ portfolio[1].current_price = 150
    /\ portfolio_df[1].pnl_pct = <<50, 1>>
    /\ portfolio_df[2].pnl_pct = <<0 - 100, 3>>

\* The days of the provider's series on or before the date and at most
\* LookBackDays before it.
DaysInWindow ==
    {d \in 1..MaxDay :
        /\ \E k \in 1..Len(provider.series) : provider.series[k].day = d
        /\ d <= req_date
        /\ req_date - d <= LookBackDays}

(* C9: the lookup returns the close of the latest session on or before the    *)
(* requested date and at most 7 days before it, and nothing when the provider *)
(* fails or has no session in that window.                                    *)
C9_LatestCloseInWindow ==
    pc = "hist_done" =>
        IF provider.ok /\ DaysInWindow # {}
        THEN hist_price = CloseOn(CHOOSE d \in DaysInWindow :
                                      \A e \in DaysInWindow : e <= d)
        ELSE hist_price = None

\* C9's case: sessions before the window, inside it and after the date; the
\* close returned is that of the latest one inside, which is not the date's.
C9_Witness ==
    /\ pc = "hist_done"
    /\ provider.ok
    /\ \E k \in 1..Len(provider.series) :
         provider.series[k].day < req_date - LookBackDays
    /\ \E k \in 1..Len(provider.series) : provider.series[k].day > req_date
    /\ Cardinality(DaysInWindow) >= 2
    /\ hist_price # None
    /\ hist_price # CloseOn(req_date)

(* C10: when the historical lookup for the picked ticker and date returned    *)
(* nothing, the price the "Price per Share" input is pre-filled with          *)
(* (st.session_state.fetched_price) is no price fetched for another ticker or *)
(* another date.                                                              *)
C10_PrefillIsOfSelection ==
    (pc = "button" /\ hist_price = None /\ fetched_price # None)
        => fetched_for = [ticker |-> ticker_symbol, date |-> buy_date]

=============================================================================
